---- MODULE Spec2Model ----
(***************************************************************************)
(* go-netperf (main.go): a TCP load generator.  In Server role             *)
(* ListenAndGo accepts connections and starts one TCPConnWrite goroutine   *)
(* per accepted connection; in Client role ConnectAndGo dials              *)
(* `concurrency` connections and then starts one TCPConnRead goroutine per *)
(* connection, after which main blocks in SigIntHandler.                   *)
(*                                                                         *)
(* Connections are numbered 1..MaxConn in the order in which the kernel    *)
(* establishes them; 0 stands for a nil *net.TCPConn.                      *)
(***************************************************************************)
EXTENDS Integers, Sequences, FiniteSets

\* ------------------------------------------------------------------ bounds
\* Largest -nconn value, and the number of connections a server run accepts.
MaxConn == 2
\* Number of failing AcceptTCP calls a server run sees.
MaxAcceptErrs == 1

Ids == 1..MaxConn

\* The default of the -size flag; a run uses it or asks for size 0.
DefaultPacketSize == 1500
Sizes == {0, DefaultPacketSize}

VARIABLES
  flags,      \* parsed command line: [listen, nconn, size, narg]
  mainPc,     \* position of main
  proc,       \* "running", or how the process ended
  b,          \* the global payload buffer: [alloc, len, writers]
  srvPc,      \* position of Server.ListenAndGo
  srvRet,     \* its return value ("none" while it has not returned)
  srvConn,    \* the conn variable of the accept loop
  accErrs,    \* failed accepts so far
  cagPc,      \* position of Client.ConnectAndGo
  cagI,       \* its loop variable i
  conns,      \* its conns slice (1-based here), 0 for nil
  cagRet,     \* its return value ("none" while it has not returned)
  dials,      \* calls of NewConnection so far
  failedAt,   \* index i of the failed NewConnection, -1 if none failed
  nilOps,     \* method calls made on a nil *net.TCPConn
  nextId,     \* number of the next connection to be established
  cstate,     \* per connection: "none", "open", "closed"
  net,        \* per connection, the peer/network side: "up", "fin", "rst", "tmo"
  peerClosed, \* per connection: the peer has closed it
  faulted,    \* per connection: an I/O fault was forced on it out of band
  closeCalls, \* per connection: calls of Close on it
  lateOps,    \* per connection: a Read, Write or Close was attempted after Close
  spawns,     \* per connection: goroutines started for it
  pkind,      \* per connection: the handler started for it ("read", "write")
  ppc,        \* per connection: its pump's position
  ioErr,      \* per connection: the error its pump's Read/Write returned
  pret,       \* per connection: its pump's return value
  plog,       \* per connection: the pump's termination log line
  sigRegistered, \* signal.Notify(ch, SIGINT) has been called
  sigGot,     \* a SIGINT was handed to the channel ch
  sigLost,    \* a SIGINT sent to ch found no receiver and was dropped
  logFinished \* "Finished execution!" has been logged

vars == << flags, mainPc, proc, b, srvPc, srvRet, srvConn, accErrs, cagPc, cagI,
           conns, cagRet, dials, failedAt, nilOps, nextId, cstate, net,
           peerClosed, faulted, closeCalls, lateOps, spawns, pkind, ppc,
           ioErr, pret, plog, sigRegistered, sigGot, sigLost, logFinished >>

mainVars == << flags, mainPc, b, logFinished >>
srvVars == << srvPc, srvRet, srvConn, accErrs >>
cagVars == << cagPc, cagI, conns, cagRet, dials, failedAt, nilOps >>
connVars == << cstate, net, peerClosed, faulted, closeCalls, lateOps >>
pumpVars == << spawns, pkind, ppc, ioErr, pret, plog >>
sigVars == << sigRegistered, sigGot, sigLost >>

\* ------------------------------------------------------ the net package
\* What NewConnection can come back with: a connection, or one of its three
\* failures (resolving saddr, resolving addr, DialTCP).
DialErrors == {"EresolveSrc", "EresolveDst", "Edial"}

\* NewConnection: (conn, err); the connection is nil on every failure.
NewConnection(outcome, fresh) ==
  IF outcome = "ok" THEN [conn |-> fresh, err |-> "nil"]
  ELSE [conn |-> 0, err |-> outcome]

\* conn.Close() on a nil *net.TCPConn.  A Go 1.0 build returns EINVAL from the
\* nil receiver; later builds take the address of the embedded conn of a nil
\* pointer and panic.
NilCloseOutcomes == {"EINVAL", "panic"}

\* c.Read(p) by the state of the connection's peer side.  A zero-length p
\* comes back at once, with nil or io.EOF depending on the build.
ReadResults(n, len) ==
  (CASE n = "up" -> {"ok"}
     [] n = "fin" -> {"EOF"}
     [] n = "rst" -> {"ECONNRESET"}
     [] n = "tmo" -> {"ETIMEDOUT"})
  \cup (IF len = 0 THEN {"ok", "EOF"} ELSE {})

\* c.Write(p) by the state of the connection's peer side.  It never returns
\* io.EOF: after the peer's FIN the kernel still takes the bytes, and after the
\* peer's RST the write fails with EPIPE or ECONNRESET.
WriteResults(n, len) ==
  (CASE n = "up" -> {"ok"}
     [] n = "fin" -> {"ok"}
     [] n = "rst" -> {"EPIPE", "ECONNRESET"}
     [] n = "tmo" -> {"ETIMEDOUT"})
  \cup (IF len = 0 THEN {"ok"} ELSE {})

\* ------------------------------------------------------------ the pumps
\* TCPConnRead without the return after Close in the io.EOF branch.
TCPConnRead_NoReturn(r) ==
  IF r = "ok" THEN [log |-> "none", close |-> FALSE, ret |-> "none", pc |-> "ready"]
  ELSE IF r = "EOF"
       THEN [log |-> "disconnected", close |-> TRUE, ret |-> "none", pc |-> "ready"]
       ELSE [log |-> "failed", close |-> TRUE, ret |-> r, pc |-> "done"]

\* TCPConnRead returning nil instead of err in the error branch.
TCPConnRead_DropsError(r) ==
  IF r = "ok" THEN [log |-> "none", close |-> FALSE, ret |-> "none", pc |-> "ready"]
  ELSE IF r = "EOF"
       THEN [log |-> "disconnected", close |-> TRUE, ret |-> "nil", pc |-> "done"]
       ELSE [log |-> "failed", close |-> TRUE, ret |-> "nil", pc |-> "done"]

\* TCPConnRead's treatment of what c.Read returned.
TCPConnReadStep(r) ==
  IF r = "ok" THEN [log |-> "none", close |-> FALSE, ret |-> "none", pc |-> "ready"]
  ELSE IF r = "EOF"
       THEN [log |-> "disconnected", close |-> TRUE, ret |-> "nil", pc |-> "done"]
       ELSE [log |-> "failed", close |-> TRUE, ret |-> r, pc |-> "done"]

\* TCPConnWrite without c.Close() in the error branch.
TCPConnWrite_NoClose(r) ==
  IF r = "ok" THEN [log |-> "none", close |-> FALSE, ret |-> "none", pc |-> "ready"]
  ELSE IF r = "EOF"
       THEN [log |-> "disconnected", close |-> TRUE, ret |-> "nil", pc |-> "done"]
       ELSE [log |-> "failed", close |-> FALSE, ret |-> r, pc |-> "done"]

\* TCPConnWrite's treatment of what c.Write returned.
TCPConnWriteStep(r) ==
  IF r = "ok" THEN [log |-> "none", close |-> FALSE, ret |-> "none", pc |-> "ready"]
  ELSE IF r = "EOF"
       THEN [log |-> "disconnected", close |-> TRUE, ret |-> "nil", pc |-> "done"]
       ELSE [log |-> "failed", close |-> TRUE, ret |-> r, pc |-> "done"]

\* A pump that closes every connection of the process, not only its own.
PumpCloses_All(i) == Ids

\* The connections a pump running on connection i calls Close on.
PumpCloses(i) == {i}

\* The handler each role installs.
ServerHandler == "write"
ClientHandler == "read"

\* go handler(c): one more goroutine for connection c.
Go(c, kind) ==
  /\ spawns' = [spawns EXCEPT ![c] = IF @ < 2 THEN @ + 1 ELSE @]
  /\ pkind' = [pkind EXCEPT ![c] = kind]
  /\ ppc' = [ppc EXCEPT ![c] = "ready"]
  /\ UNCHANGED << ioErr, pret, plog >>

Running == proc = "running"

\* ---------------------------------------------------------------- Init
Init ==
  /\ flags \in [listen : BOOLEAN, nconn : 0..MaxConn, size : Sizes, narg : {0, 1}]
  /\ mainPc = "start"
  /\ proc = "running"
  /\ b = [alloc |-> 0, len |-> 0, writers |-> {}]
  /\ srvPc = "idle" /\ srvRet = "none" /\ srvConn = 0 /\ accErrs = 0
  /\ cagPc = "idle" /\ cagI = 0 /\ conns = << >> /\ cagRet = "none"
  /\ dials = 0 /\ failedAt = -1 /\ nilOps = 0
  /\ nextId = 1
  /\ cstate = [i \in Ids |-> "none"]
  /\ net = [i \in Ids |-> "up"]
  /\ peerClosed = [i \in Ids |-> FALSE]
  /\ faulted = [i \in Ids |-> FALSE]
  /\ closeCalls = [i \in Ids |-> 0]
  /\ lateOps = [i \in Ids |-> FALSE]
  /\ spawns = [i \in Ids |-> 0]
  /\ pkind = [i \in Ids |-> "none"]
  /\ ppc = [i \in Ids |-> "none"]
  /\ ioErr = [i \in Ids |-> "none"]
  /\ pret = [i \in Ids |-> "none"]
  /\ plog = [i \in Ids |-> "none"]
  /\ sigRegistered = FALSE /\ sigGot = FALSE /\ sigLost = FALSE
  /\ logFinished = FALSE

\* ---------------------------------------------------------------- main
\* main with positional arguments: usage is printed and main returns.
MainUsage ==
  /\ Running /\ mainPc = "start" /\ flags.narg # 0
  /\ mainPc' = "done" /\ proc' = "exit0"
  /\ UNCHANGED << flags, b, logFinished, srvVars, cagVars, nextId, connVars, pumpVars, sigVars >>

\* make([]byte, n) with n the default size whatever -size says.
PayloadLen_Default(size) == DefaultPacketSize

\* The length of b = make([]byte, *packetsize).
PayloadLen(size) == size

\* SigIntHandler() placed after the if/else: the server's main calls it too.
MainAfterEndpoint_AlwaysSig(listen) == "SigIntHandler"

\* SigIntHandler() left out: the client's main falls through as well.
MainAfterEndpoint_AlwaysFinish(listen) == "finish"

\* What main does once its endpoint call has returned: the server branch falls
\* through to the last log line, the client branch calls SigIntHandler.
MainAfterEndpoint(listen) == IF listen THEN "finish" ELSE "SigIntHandler"

\* The endpoint call of main's branch has returned.
EndpointReturned ==
  IF flags.listen THEN mainPc = "server" /\ srvPc = "returned"
  ELSE mainPc = "client" /\ cagPc = "returned"

\* main up to the call of the role's endpoint: b is allocated, then either
\* ListenAndGo or ConnectAndGo is entered.
MainStart ==
  /\ Running /\ mainPc = "start" /\ flags.narg = 0
  /\ b' = [alloc |-> b.alloc + 1, len |-> PayloadLen(flags.size), writers |-> {}]
  /\ IF flags.listen
     THEN /\ mainPc' = "server" /\ srvPc' = "resolve"
          /\ UNCHANGED << cagPc, cagI, conns >>
     ELSE /\ mainPc' = "client" /\ cagPc' = "dial" /\ cagI' = 0
          /\ conns' = [k \in 1..flags.nconn |-> 0]
          /\ UNCHANGED srvPc
  /\ UNCHANGED << flags, logFinished, proc, srvRet, srvConn, accErrs, cagRet, dials,
                  failedAt, nilOps, nextId, connVars, pumpVars, sigVars >>

\* ListenAndGo has returned: main logs "Finished execution!" and returns.
MainFinishServer ==
  /\ Running /\ EndpointReturned /\ MainAfterEndpoint(flags.listen) = "finish"
  /\ logFinished' = TRUE
  /\ mainPc' = "done" /\ proc' = "exit0"
  /\ UNCHANGED << flags, b, srvVars, cagVars, nextId, connVars, pumpVars, sigVars >>

\* ConnectAndGo has returned (its result is dropped): SigIntHandler makes the
\* channel and registers it for SIGINT.
MainSigNotify ==
  /\ Running /\ EndpointReturned /\ MainAfterEndpoint(flags.listen) = "SigIntHandler"
  /\ mainPc' = "sigNotify" /\ sigRegistered' = TRUE
  /\ UNCHANGED << flags, b, logFinished, proc, srvVars, cagVars, nextId, connVars,
                  pumpVars, sigGot, sigLost >>

\* SigIntHandler blocks in <-ch.
MainSigWait ==
  /\ Running /\ mainPc = "sigNotify"
  /\ mainPc' = "sigRecv"
  /\ UNCHANGED << flags, b, logFinished, proc, srvVars, cagVars, nextId, connVars, pumpVars, sigVars >>

\* <-ch has a signal: "CTRL-C; exiting" and os.Exit(0).
MainSigExit ==
  /\ Running /\ mainPc = "sigRecv" /\ sigGot
  /\ mainPc' = "done" /\ proc' = "exit0"
  /\ UNCHANGED << flags, b, logFinished, srvVars, cagVars, nextId, connVars, pumpVars, sigVars >>

\* A SIGINT reaches the process.  Unregistered, it kills the process; registered,
\* it is sent to ch without blocking, so it is kept only if main is in <-ch.
Sigint ==
  /\ Running
  /\ IF ~sigRegistered
     THEN proc' = "killed" /\ UNCHANGED << sigGot, sigLost >>
     ELSE /\ sigGot' = (sigGot \/ mainPc = "sigRecv")
          /\ sigLost' = (sigLost \/ mainPc # "sigRecv")
          /\ UNCHANGED proc
  /\ UNCHANGED << flags, mainPc, b, logFinished, srvVars, cagVars, nextId, connVars, pumpVars,
                  sigRegistered >>

\* --------------------------------------------------- Server.ListenAndGo
\* net.ResolveTCPAddr(s.proto, s.addr): on failure log and return the error.
SrvResolve ==
  /\ Running /\ srvPc = "resolve"
  /\ \E ok \in BOOLEAN :
       IF ok THEN srvPc' = "listen" /\ UNCHANGED srvRet
       ELSE srvPc' = "returned" /\ srvRet' = "Eresolve"
  /\ UNCHANGED << mainVars, proc, srvConn, accErrs, cagVars, nextId, connVars,
                  pumpVars, sigVars >>

\* net.ListenTCP(s.proto, tcpaddr): on failure log and return the error.
SrvListen ==
  /\ Running /\ srvPc = "listen"
  /\ \E ok \in BOOLEAN :
       IF ok THEN srvPc' = "accept" /\ UNCHANGED srvRet
       ELSE srvPc' = "returned" /\ srvRet' = "Elisten"
  /\ UNCHANGED << mainVars, proc, srvConn, accErrs, cagVars, nextId, connVars,
                  pumpVars, sigVars >>

\* s.handler(conn) called without go: the loop waits in the handler.
SrvAfterSpawn_Waits == "inHandler"

\* return err instead of continue after a failed AcceptTCP.
SrvAfterAcceptError_Returns == "returned"

\* Where the accept loop goes after an AcceptTCP error (continue) and after
\* go s.handler(conn) (the next iteration).
SrvAfterAcceptError == "accept"
SrvAfterSpawn == "accept"

\* ln.AcceptTCP() returns a new connection.
SrvAccept ==
  /\ Running /\ srvPc = "accept" /\ nextId <= MaxConn
  /\ srvConn' = nextId /\ nextId' = nextId + 1
  /\ cstate' = [cstate EXCEPT ![nextId] = "open"]
  /\ srvPc' = "accepted"
  /\ UNCHANGED << mainVars, proc, srvRet, accErrs, cagVars, net, peerClosed, faulted,
                  closeCalls, lateOps, pumpVars, sigVars >>

\* ln.AcceptTCP() returns an error: it is logged and the loop continues.
SrvAcceptError ==
  /\ Running /\ srvPc = "accept" /\ accErrs < MaxAcceptErrs
  /\ accErrs' = accErrs + 1
  /\ srvConn' = 0
  /\ srvPc' = SrvAfterAcceptError
  /\ UNCHANGED << mainVars, proc, srvRet, cagVars, nextId, connVars, pumpVars, sigVars >>

\* The peer is logged and go s.handler(conn) starts the connection's pump.
SrvSpawn ==
  /\ Running /\ srvPc = "accepted"
  /\ Go(srvConn, ServerHandler)
  /\ srvPc' = SrvAfterSpawn
  /\ UNCHANGED << mainVars, proc, srvRet, srvConn, accErrs, cagVars, nextId, connVars,
                  sigVars >>

\* -------------------------------------------------- Client.ConnectAndGo
\* break instead of return err after a failed NewConnection.
CagAfterDialError_Break(nc) == IF nc = "panic" THEN "panicked" ELSE "spawn"

\* The second loop handing conns[0] to every handler.
CagSpawnConn_First(j) == conns[1]

\* conns[c.concurrency-1-i] = conn: the slice filled from its end.
CagStoreIndex_Reversed(i) == flags.nconn - i

\* The failure branch closing every connection established so far.
CagRollback_All(i) == {conns[k] : k \in 1..i}

\* The slot (1-based here) that conns[i] = conn fills.
CagStoreIndex(i) == i + 1

\* The established connections the failure branch at index i closes before it
\* returns: none, its only Close is on the conn of the failed call.
CagRollback(i) == {}

\* Where ConnectAndGo goes when NewConnection failed and conn.Close() on the
\* nil connection came back with nc: it returns err, unless Close panicked.
CagAfterDialError(nc) == IF nc = "panic" THEN "panicked" ELSE "returned"

\* The connection the second loop hands to the handler at index j.
CagSpawnConn(j) == conns[j + 1]

\* One iteration of the first loop: NewConnection, and on failure the log
\* line, conn.Close() and return err; on success conns[i] = conn.
CagDial ==
  /\ Running /\ cagPc = "dial" /\ cagI < flags.nconn
  /\ dials' = dials + 1
  /\ \E outcome \in {"ok"} \cup DialErrors :
       LET r == NewConnection(outcome, nextId) IN
       IF r.err # "nil"
       THEN /\ failedAt' = cagI
            /\ nilOps' = nilOps + (IF r.conn = 0 THEN 1 ELSE 0)
            /\ \E nc \in NilCloseOutcomes :
                 LET pc == CagAfterDialError(nc) IN
                 /\ cagPc' = pc
                 /\ proc' = IF pc = "panicked" THEN "panic" ELSE proc
                 /\ cagRet' = IF pc = "returned" THEN r.err ELSE cagRet
                 /\ cagI' = IF pc = "spawn" THEN 0 ELSE cagI
            /\ cstate' = [k \in Ids |-> IF k \in CagRollback(cagI) /\ cstate[k] = "open"
                                        THEN "closed" ELSE cstate[k]]
            /\ closeCalls' = [k \in Ids |-> IF k \in CagRollback(cagI) /\ closeCalls[k] < 2
                                            THEN closeCalls[k] + 1 ELSE closeCalls[k]]
            /\ UNCHANGED << conns, nextId >>
       ELSE /\ conns' = [conns EXCEPT ![CagStoreIndex(cagI)] = r.conn]
            /\ cstate' = [cstate EXCEPT ![r.conn] = "open"]
            /\ nextId' = nextId + 1
            /\ cagI' = cagI + 1
            /\ UNCHANGED << cagPc, cagRet, failedAt, nilOps, proc, closeCalls >>
  /\ UNCHANGED << mainVars, srvVars, net, peerClosed, faulted, lateOps,
                  pumpVars, sigVars >>

\* The first loop ends (i == c.concurrency): the second loop starts at i = 0.
CagDialDone ==
  /\ Running /\ cagPc = "dial" /\ cagI >= flags.nconn
  /\ cagPc' = "spawn" /\ cagI' = 0
  /\ UNCHANGED << mainVars, proc, srvVars, conns, cagRet, dials, failedAt, nilOps,
                  nextId, connVars, pumpVars, sigVars >>

\* One iteration of the second loop: go c.handler(conns[i]).  A handler
\* started on a nil connection panics in its first call on it.
CagSpawn ==
  /\ Running /\ cagPc = "spawn" /\ cagI < flags.nconn
  /\ LET c == CagSpawnConn(cagI) IN
       IF c = 0
       THEN proc' = "panic" /\ UNCHANGED pumpVars
       ELSE Go(c, ClientHandler) /\ UNCHANGED proc
  /\ cagI' = cagI + 1
  /\ UNCHANGED << mainVars, srvVars, cagPc, conns, cagRet, dials, failedAt, nilOps,
                  nextId, connVars, sigVars >>

\* The second loop ends: return nil.
CagReturn ==
  /\ Running /\ cagPc = "spawn" /\ cagI >= flags.nconn
  /\ cagPc' = "returned" /\ cagRet' = "nil"
  /\ UNCHANGED << mainVars, proc, srvVars, cagI, conns, dials, failedAt, nilOps,
                  nextId, connVars, pumpVars, sigVars >>

\* ------------------------------------------- TCPConnRead / TCPConnWrite
\* The length of the slice a pump passes to c.Read and c.Write: all of b.
IoArgLen == b.len

\* The pump of connection i sets its socket buffer size (first pass) and
\* enters its blocking c.Read(b) or c.Write(b).
PumpCall(i) ==
  /\ Running /\ ppc[i] = "ready"
  /\ ppc' = [ppc EXCEPT ![i] = "blocked"]
  /\ lateOps' = [lateOps EXCEPT ![i] = @ \/ cstate[i] # "open"]
  /\ UNCHANGED << mainVars, proc, srvVars, cagVars, nextId, cstate, net, peerClosed,
                  faulted, closeCalls, spawns, pkind, ioErr, pret, plog, sigVars >>

\* The blocking call of pump i returns r, and the pump acts on it: loop again,
\* or log, Close and return.  A successful Read has stored bytes in b; a Write
\* taken after the peer's FIN may draw the peer's RST.
PumpReturn(i) ==
  /\ Running /\ ppc[i] = "blocked"
  /\ \E r \in (IF pkind[i] = "read" THEN ReadResults(net[i], IoArgLen)
                                    ELSE WriteResults(net[i], IoArgLen)) :
       LET h == IF pkind[i] = "read" THEN TCPConnReadStep(r) ELSE TCPConnWriteStep(r)
           closing == IF h.close THEN PumpCloses(i) ELSE {}
       IN
       /\ ioErr' = [ioErr EXCEPT ![i] = IF r = "ok" THEN @ ELSE r]
       /\ ppc' = [ppc EXCEPT ![i] = h.pc]
       /\ pret' = [pret EXCEPT ![i] = h.ret]
       /\ plog' = [plog EXCEPT ![i] = h.log]
       /\ cstate' = [k \in Ids |-> IF k \in closing /\ cstate[k] = "open"
                                   THEN "closed" ELSE cstate[k]]
       /\ closeCalls' = [k \in Ids |-> IF k \in closing /\ closeCalls[k] < 2
                                       THEN closeCalls[k] + 1 ELSE closeCalls[k]]
       /\ lateOps' = [k \in Ids |-> lateOps[k] \/ (k \in closing /\ cstate[k] = "closed")]
       /\ b' = IF pkind[i] = "read" /\ r = "ok" /\ IoArgLen > 0
               THEN [b EXCEPT !.writers = @ \cup {i}] ELSE b
       /\ \E n \in (IF pkind[i] = "write" /\ r = "ok" /\ net[i] = "fin" /\ IoArgLen > 0
                    THEN {"fin", "rst"} ELSE {net[i]}) :
            net' = [net EXCEPT ![i] = n]
  /\ UNCHANGED << flags, mainPc, logFinished, proc, srvVars, cagVars, nextId,
                  peerClosed, faulted, spawns, pkind, sigVars >>

\* ------------------------------------------------------ the environment
\* The peer of open connection i closes it.
PeerClose(i) ==
  /\ Running /\ cstate[i] = "open" /\ net[i] = "up"
  /\ net' = [net EXCEPT ![i] = "fin"]
  /\ peerClosed' = [peerClosed EXCEPT ![i] = TRUE]
  /\ UNCHANGED << mainVars, proc, srvVars, cagVars, nextId, cstate, faulted, closeCalls,
                  lateOps, pumpVars, sigVars >>

\* An I/O fault is forced on open connection i: a reset or a timeout.
NetFault(i) ==
  /\ Running /\ cstate[i] = "open" /\ net[i] = "up"
  /\ \E n \in {"rst", "tmo"} : net' = [net EXCEPT ![i] = n]
  /\ faulted' = [faulted EXCEPT ![i] = TRUE]
  /\ UNCHANGED << mainVars, proc, srvVars, cagVars, nextId, cstate, peerClosed,
                  closeCalls, lateOps, pumpVars, sigVars >>

\* ---------------------------------------------------------------- Next
Next ==
  \/ MainUsage \/ MainStart \/ MainFinishServer
  \/ MainSigNotify \/ MainSigWait \/ MainSigExit \/ Sigint
  \/ SrvResolve \/ SrvListen \/ SrvAccept \/ SrvAcceptError \/ SrvSpawn
  \/ CagDial \/ CagDialDone \/ CagSpawn \/ CagReturn
  \/ \E i \in Ids : PumpCall(i)
  \/ \E i \in Ids : PumpReturn(i)
  \/ \E i \in Ids : PeerClose(i)
  \/ \E i \in Ids : NetFault(i)

Spec == Init /\ [][Next]_vars

\* -------------------------------------------------------------- claims
Live(i) == ppc[i] \in {"ready", "blocked"}
Open(i) == cstate[i] = "open"
LivePumps == {i \in Ids : Live(i)}
OpenConns == {i \in Ids : Open(i)}

\* C1: in Client role with concurrency N >= 1, when all N dials succeeded and
\* ConnectAndGo has returned, it returned nil and started exactly one
\* TCPConnRead goroutine for each of the N established connections: N distinct
\* connections, none started twice, none besides them.
C1_AllDialedAllPumped ==
  (~flags.listen /\ flags.nconn >= 1 /\ cagPc = "returned" /\ failedAt = -1) =>
    /\ cagRet = "nil"
    /\ dials = flags.nconn
    /\ \A k \in 1..flags.nconn :
         /\ conns[k] \in Ids
         /\ spawns[conns[k]] = 1
         /\ pkind[conns[k]] = "read"
    /\ \A k, l \in 1..flags.nconn : conns[k] = conns[l] => k = l
    /\ Cardinality({i \in Ids : spawns[i] > 0}) = flags.nconn

C1_Witness ==
  /\ ~flags.listen /\ flags.nconn >= 2 /\ cagPc = "returned" /\ cagRet = "nil"
  /\ \A k \in 1..flags.nconn : spawns[conns[k]] = 1 /\ Live(conns[k])

\* C2: in Server role every accepted connection gets exactly one TCPConnWrite
\* goroutine (none while the loop still holds it between AcceptTCP and the go
\* statement), after the go statement the loop is back at AcceptTCP, and there
\* AcceptTCP can return whatever the pumps are doing.
C2_OnePumpPerAccept ==
  flags.listen =>
    /\ \A i \in Ids : cstate[i] # "none" =>
         IF srvPc = "accepted" /\ srvConn = i
         THEN spawns[i] = 0 /\ ppc[i] = "none"
         ELSE spawns[i] = 1 /\ pkind[i] = "write"
    /\ nextId > 1 => srvPc \in {"accept", "accepted"}
    /\ (Running /\ srvPc = "accept" /\ nextId <= MaxConn) => ENABLED SrvAccept

C2_Witness ==
  /\ flags.listen /\ srvPc = "accept" /\ nextId = 3
  /\ spawns[1] = 1 /\ spawns[2] = 1
  /\ ppc[1] = "blocked" /\ ioErr[1] = "none" /\ cstate[1] = "open"

\* The step in which pump i ends on an I/O error closes connection i, changes
\* no other pump and no other connection, and leaves the process running.
C3_StepIsolated ==
  \A i \in Ids :
    (ppc[i] = "blocked" /\ ppc'[i] = "done" /\ pret'[i] # "nil") =>
      /\ cstate'[i] = "closed"
      /\ proc' = "running"
      /\ \A j \in Ids \ {i} :
           /\ ppc'[j] = ppc[j] /\ pret'[j] = pret[j] /\ ioErr'[j] = ioErr[j]
           /\ cstate'[j] = cstate[j] /\ closeCalls'[j] = closeCalls[j]

\* A pump in its loop has its connection open and can call or return.
C3_LiveKeepsRunning ==
  \A j \in Ids :
    (Running /\ Live(j)) => (Open(j) /\ ENABLED (PumpCall(j) \/ PumpReturn(j)))

\* C3: the step in which pump i ends on an I/O error closes connection i and
\* changes no other pump and no other connection, and the process keeps
\* running; every pump still in its loop has its connection open and a step
\* to take.
C3_Isolation == [][C3_StepIsolated]_vars /\ []C3_LiveKeepsRunning

C3_Witness ==
  \E i, j \in Ids :
    /\ i # j /\ Running
    /\ ppc[i] = "done" /\ pret[i] \notin {"none", "nil"} /\ cstate[i] = "closed"
    /\ Live(j) /\ Open(j)

\* C4: Close is called at most once on every connection, and no Read, Write or
\* Close is attempted on a connection after its Close.
C4_CloseOnce ==
  \A i \in Ids : closeCalls[i] <= 1 /\ ~lateOps[i]

C4_Witness ==
  \E i \in Ids :
    /\ peerClosed[i] /\ closeCalls[i] = 1 /\ cstate[i] = "closed"
    /\ ppc[i] = "done" /\ plog[i] = "disconnected"

\* C5: once the dial at some index has failed, no goroutine has been started
\* for any connection of the run, and none is started later.
C5_AllOrNothing ==
  failedAt # -1 => \A i \in Ids : spawns[i] = 0 /\ ppc[i] = "none"

C5_Witness ==
  /\ failedAt = 1 /\ cstate[1] = "open"
  /\ mainPc = "sigRecv"

\* C6: when the dial at index k has failed, ConnectAndGo has returned that
\* error, and NewConnection was called k+1 times in all.
C6_ReturnsDialError ==
  failedAt # -1 =>
    /\ cagPc = "returned" /\ cagRet \in DialErrors
    /\ dials = failedAt + 1

\* C7: a TCPConnWrite pump that ended after its peer closed the connection
\* (nothing else having been done to the connection) logged the disconnect,
\* closed the connection once and returned nil.
C7_WriteCleanOnPeerClose ==
  \A i \in Ids :
    (pkind[i] = "write" /\ peerClosed[i] /\ ~faulted[i] /\ ppc[i] = "done") =>
      /\ plog[i] = "disconnected" /\ pret[i] = "nil"
      /\ closeCalls[i] = 1

\* C8: a TCPConnRead pump stays in its loop, its connection open, as long as no
\* read has failed; the first failing read ends it: the connection is closed
\* once, the pump returns nil for io.EOF and the read's error otherwise, and
\* it reads no more.
C8_ReadTermination ==
  \A i \in Ids : pkind[i] = "read" =>
    /\ Live(i) => (ioErr[i] = "none" /\ pret[i] = "none" /\ Open(i) /\ closeCalls[i] = 0)
    /\ ioErr[i] # "none" => ppc[i] = "done"
    /\ ppc[i] = "done" =>
         /\ ioErr[i] # "none"
         /\ pret[i] = (IF ioErr[i] = "EOF" THEN "nil" ELSE ioErr[i])
         /\ plog[i] = (IF ioErr[i] = "EOF" THEN "disconnected" ELSE "failed")
         /\ cstate[i] = "closed" /\ closeCalls[i] = 1 /\ ~lateOps[i]

C8_Witness ==
  \E i, j \in Ids :
    /\ pkind[i] = "read" /\ pkind[j] = "read"
    /\ i \in b.writers /\ ioErr[i] = "EOF" /\ pret[i] = "nil"
    /\ j \in b.writers /\ ioErr[j] = "ECONNRESET" /\ pret[j] = "ECONNRESET"

\* C9 as claimed: in every state there are as many pumps running as open
\* connections, and every open connection has exactly one pump.
C9_PumpsEqualConns ==
  /\ Cardinality(LivePumps) = Cardinality(OpenConns)
  /\ \A i \in Ids : Open(i) => (Live(i) /\ spawns[i] = 1)

\* The endpoint holds no connection that it has yet to hand to a pump.
StartupComplete ==
  IF flags.listen THEN srvPc = "accept"
  ELSE cagPc = "returned" /\ cagRet = "nil"

\* C9 as amended: every pump still in its I/O loop owns an open connection
\* that has no other pump, so such pumps never outnumber the open
\* connections; and once the endpoint has handed over every connection it
\* established, every open connection has its pump.
C9_PumpsWithinConns ==
  /\ \A i \in Ids : Live(i) => (Open(i) /\ spawns[i] = 1)
  /\ Cardinality(LivePumps) <= Cardinality(OpenConns)
  /\ StartupComplete => \A i \in Ids : Open(i) => (Live(i) /\ spawns[i] = 1)

C9_Witness ==
  /\ StartupComplete
  /\ \E i, j \in Ids : Live(i) /\ Open(i) /\ ppc[j] = "done" /\ cstate[j] = "closed"

\* What the pump of connection i is doing to b while it is inside its call.
Access(i) ==
  IF ppc[i] = "blocked" /\ b.len > 0
  THEN (IF pkind[i] = "read" THEN "store" ELSE "load")
  ELSE "none"

\* C10: b is never stored to after main has allocated it, and no two pumps are
\* at once inside calls of which one stores to b.
C10_NoSharedWrites ==
  /\ b.writers = {}
  /\ \A i, j \in Ids : (i # j /\ Access(i) = "store") => Access(j) = "none"

\* The endpoint call of main's branch has returned an error.
StartupFailed ==
  \/ flags.listen /\ srvPc = "returned"
  \/ ~flags.listen /\ cagPc = "returned" /\ cagRet \in DialErrors

\* C11 as claimed: in either role, once the endpoint call has returned an
\* error, main does not go on to wait for an interrupt, and a process that
\* has exited has logged "Finished execution!".
C11_FailedStartupFinishes ==
  StartupFailed =>
    /\ mainPc \notin {"sigNotify", "sigRecv"}
    /\ proc = "exit0" => logFinished

\* C11 as amended: when ListenAndGo has returned an error, main can log
\* "Finished execution!" and return with no signal involved, and a server that
\* exited has done so; when ConnectAndGo has returned an error, main goes on
\* into SigIntHandler, "Finished execution!" is never logged and the process
\* exits only on a received interrupt.
C11_ServerFinishesClientWaits ==
  /\ (flags.listen /\ srvPc = "returned") =>
       /\ srvRet \in {"Eresolve", "Elisten"}
       /\ mainPc \in {"server", "done"} /\ ~sigRegistered
       /\ Running => ENABLED MainFinishServer
       /\ proc \in {"running", "exit0", "killed"}
       /\ proc = "exit0" => logFinished
  /\ (~flags.listen /\ cagPc = "returned" /\ cagRet \in DialErrors) =>
       /\ ~logFinished
       /\ mainPc \in {"client", "sigNotify", "sigRecv", "done"}
       /\ Running => mainPc # "done"
       /\ proc = "exit0" => sigGot

C11_Witness ==
  /\ flags.listen /\ srvRet = "Elisten"
  /\ proc = "exit0" /\ logFinished

\* C12: in Client role no SIGINT ends the process other than through
\* SigIntHandler's os.Exit(0), and no SIGINT is lost.
C12_EverySigintExitsZero ==
  (~flags.listen /\ cagPc # "idle") =>
    /\ proc # "killed"
    /\ ~sigLost

\* An AcceptTCP error leaves the loop at AcceptTCP and starts no pump.
C13_ErrorStep ==
  accErrs' # accErrs =>
    /\ srvPc' = "accept" /\ srvRet' = "none"
    /\ spawns' = spawns /\ ppc' = ppc /\ cstate' = cstate /\ nextId' = nextId

\* ListenAndGo returns only from its resolve and listen failures; once in the
\* accept loop it stays there, with pumps for accepted connections only, and
\* both outcomes of AcceptTCP stay possible.
C13_InLoop ==
  flags.listen =>
    /\ srvPc = "returned" => (srvRet \in {"Eresolve", "Elisten"} /\ accErrs = 0 /\ nextId = 1)
    /\ (accErrs > 0 \/ nextId > 1) =>
         (srvPc \in {"accept", "accepted"} /\ srvRet = "none" /\ mainPc = "server")
    /\ Cardinality({i \in Ids : spawns[i] > 0})
         = nextId - 1 - (IF srvPc = "accepted" THEN 1 ELSE 0)
    /\ (Running /\ srvPc = "accept" /\ accErrs < MaxAcceptErrs) => ENABLED SrvAcceptError
    /\ (Running /\ srvPc = "accept" /\ nextId <= MaxConn) => ENABLED SrvAccept

\* C13: once ListenAndGo is in its accept loop it never returns: an accept
\* error starts no pump and is followed by another AcceptTCP, whatever the
\* sequence of accept errors and successes.
C13_AcceptLoopNeverReturns == [][C13_ErrorStep]_vars /\ []C13_InLoop

C13_Witness ==
  /\ flags.listen /\ srvPc = "accept" /\ Running
  /\ accErrs >= 1 /\ nextId = 3
  /\ spawns[1] = 1 /\ spawns[2] = 1

\* C14: ConnectAndGo fills conns in index order with the connections in the
\* order of their establishment, one NewConnection call after the other; no
\* pump exists unless all concurrency dials succeeded; the second loop starts
\* the pumps in index order, and its next go statement can run whatever the
\* pumps already started are doing.
C14_SequentialThenSpawn ==
  (~flags.listen /\ cagPc # "idle") =>
    /\ cagPc = "dial" =>
         /\ \A k \in 1..flags.nconn : conns[k] = (IF k <= cagI THEN k ELSE 0)
         /\ dials = cagI /\ nextId = cagI + 1
    /\ failedAt # -1 =>
         /\ \A k \in 1..flags.nconn : conns[k] = (IF k <= failedAt THEN k ELSE 0)
         /\ dials = failedAt + 1 /\ nextId = failedAt + 1
    /\ (\E i \in Ids : spawns[i] > 0) =>
         /\ cagPc \in {"spawn", "returned"} /\ failedAt = -1
         /\ dials = flags.nconn
         /\ \A k \in 1..flags.nconn : conns[k] = k
    /\ cagPc = "spawn" =>
         \A k \in 1..flags.nconn : spawns[conns[k]] = (IF k <= cagI THEN 1 ELSE 0)
    /\ (Running /\ cagPc = "spawn" /\ cagI < flags.nconn) => ENABLED CagSpawn

C14_Witness ==
  /\ ~flags.listen /\ flags.nconn = 2 /\ Running
  /\ cagPc = "spawn" /\ cagI = 1
  /\ ppc[1] = "blocked" /\ spawns[2] = 0

\* C15: after the dial at index k > 0 has failed, the k connections
\* established before it are open, Close has not been called on any of them,
\* and no pump owns them; this stays so to the end of the process.
C15_LeakOnFailure ==
  failedAt > 0 =>
    \A k \in 1..failedAt :
      /\ conns[k] \in Ids
      /\ cstate[conns[k]] = "open" /\ closeCalls[conns[k]] = 0
      /\ ppc[conns[k]] = "none"

C15_Witness ==
  /\ failedAt = 1 /\ cagRet = "Edial"
  /\ cstate[1] = "open" /\ peerClosed[1]

\* C16: in Client role the process ends only on an interrupt signal: killed by
\* it, or by SigIntHandler's os.Exit(0) after receiving it.
C16_ClientEndsOnlyOnSigint ==
  (~flags.listen /\ cagPc # "idle") =>
    \/ proc \in {"running", "killed"}
    \/ proc = "exit0" /\ sigGot

\* C17: b is allocated at most once, and once, with length packetSize, before
\* ListenAndGo or ConnectAndGo is entered and so before any pump exists; every
\* Write a TCPConnWrite pump is inside was passed packetSize bytes.
C17_BufferOnceFullLength ==
  /\ b.alloc <= 1
  /\ (srvPc # "idle" \/ cagPc # "idle") => (b.alloc = 1 /\ b.len = flags.size)
  /\ b.alloc = 0 => \A i \in Ids : ppc[i] = "none" /\ cstate[i] = "none"
  /\ \A i \in Ids : (pkind[i] = "write" /\ ppc[i] = "blocked") => IoArgLen = flags.size

C17_Witness ==
  /\ flags.listen /\ flags.size = DefaultPacketSize /\ b.alloc = 1
  /\ \E i \in Ids : pkind[i] = "write" /\ ppc[i] = "blocked" /\ IoArgLen = DefaultPacketSize

\* C18: ConnectAndGo calls no method on a nil connection.
C18_NoCallOnNilConn ==
  nilOps = 0

\* C19: with concurrency 0 in Client role no dial is made, no connection and no
\* pump exists, ConnectAndGo returns nil, and main then stays in SigIntHandler:
\* the process exits only on a received interrupt.
C19_ZeroConcurrency ==
  (~flags.listen /\ flags.nconn = 0) =>
    /\ dials = 0 /\ nextId = 1 /\ failedAt = -1 /\ nilOps = 0
    /\ \A i \in Ids : spawns[i] = 0 /\ cstate[i] = "none"
    /\ cagRet \in {"none", "nil"}
    /\ cagPc = "returned" => cagRet = "nil"
    /\ proc # "panic" /\ ~logFinished
    /\ proc = "exit0" => (flags.narg # 0 \/ sigGot)
    /\ (cagPc = "returned" /\ Running) => mainPc \in {"client", "sigNotify", "sigRecv"}

C19_Witness ==
  /\ ~flags.listen /\ flags.nconn = 0 /\ Running
  /\ cagRet = "nil" /\ dials = 0
  /\ mainPc = "sigRecv" /\ ~sigGot

====
